---------------------------- MODULE Spec2Model ----------------------------
(***************************************************************************)
(* State-machine model of the snake game in                                *)
(*   src/ПР1/Проект/snake3d_pause_hold_version.py                          *)
(*                                                                         *)
(* The state is the Game object (scene, snake, direction, next_dir, ticks, *)
(* score, best, speed, apples, the invisible wall, game_over), the value   *)
(* of its Slider, and the position of the program in main() / Game.run().  *)
(* One pygame event is dispatched per RunDispatch / MainDispatch step; a   *)
(* frame of Game.run() is any number of RunDispatch steps followed by one  *)
(* RunFrame step (which calls step() when the scene is 'play').            *)
(*                                                                         *)
(* A game value is a record g; the methods of Game are operators from a    *)
(* record to the SET of records the call can leave behind (random draws    *)
(* make a call nondeterministic).  The field "exited" is TRUE once         *)
(* sys.exit() was called: nothing after it runs.                           *)
(*                                                                         *)
(* Not modelled: rendering, and the fields pause_started, pause_auto_ms    *)
(* and speed_pending, which the program writes and never reads.            *)
(*                                                                         *)
(* Two variables are not fields of the program.  scenario names what the   *)
(* environment does in this run (it never changes): the set of cells the   *)
(* rand_cell() calls fall in, and whether the slider is dragged.           *)
(* restarted is a history variable: restart() was called since the last    *)
(* frame of Game.run() ended.                                              *)
(***************************************************************************)
EXTENDS Integers, Sequences, FiniteSets, TLC

VARIABLES pc, scene, snake, direction, next_dir, ticks, score, best, speed,
          apples, invis_x, invis_y1, invis_y2, game_over, slider_value,
          scenario, restarted

vars == <<pc, scene, snake, direction, next_dir, ticks, score, best, speed,
          apples, invis_x, invis_y1, invis_y2, game_over, slider_value,
          scenario, restarted>>

---------------------------------------------------------------------------
(* Program constants *)

GRID_W == 26

GRID_H == 20

SIDEPANEL == 220

FPS_BASE == 10

MAX_FPS == 22

\* Slider rect width: Slider((bx, by+190, SIDEPANEL-28, 28), ...)
SLIDER_W == SIDEPANEL - 28

---------------------------------------------------------------------------
(* Bounds of the model *)

\* step() is not run once the tick counter of a round has reached MaxTicks.
MaxTicks == 13

\* While the scene is 'play', direction keys arrive only during the first
\* MaxInputTick ticks of a round, the restart keys (R, Enter) at any time and
\* every other event only during the first MaxUITick ticks of a round.  In
\* every other scene all events arrive at any time.
MaxInputTick == 3

MaxUITick == 2

\* rand_cell() results the model follows.  In a run of scenario "near" they
\* are the first NumRandCells of RandCellSeq, in a run of scenario "loop" the
\* two cells of LoopCells, in a run of scenario "wall" the cell of WallCells.
NumRandCells == 1

\* Slider pixel offsets the model drags to, in a run of scenario "near": the
\* first NumSliderPx of SliderPxSeq.  In the other scenarios the slider is
\* left alone.
NumSliderPx == 1

RandCellSeq == << <<12, 8>>, <<14, 10>>, <<13, 10>>, <<12, 9>> >>

SliderPxSeq == << 191, 0, 100 >>

Min(a, b) == IF a < b THEN a ELSE b

Max(a, b) == IF a > b THEN a ELSE b

\* (13,9) is the cell above the head of the start snake; (12,10) is the tail
\* cell of the snake that ate there and turned left: the head is above it
LoopCells == { <<13, 9>>, <<12, 10>> }

\* (8,9) lies in column GRID_W // 3 = 8, between the rows 4 and GRID_H - 5:
\* a cell of the invisible wall, one row above the row of the start snake
WallCells == { <<8, 9>> }

Scenarios == {"near", "loop", "wall"}

RandCells ==
    IF scenario = "near"
    THEN { RandCellSeq[i] : i \in 1..Min(NumRandCells, Len(RandCellSeq)) }
    ELSE IF scenario = "loop" THEN LoopCells
    ELSE WallCells

SliderPx ==
    IF scenario = "near"
    THEN { SliderPxSeq[i] : i \in 1..Min(NumSliderPx, Len(SliderPxSeq)) }
    ELSE {}

---------------------------------------------------------------------------
(* Helpers *)

clamp(x, a, b) == Max(a, Min(b, x))

Cells(s) == { s[i] : i \in 1..Len(s) }

\* Mutant of InGrid: the upper bounds compared with <= instead of <
InGrid_inclusive(c) == 0 <= c[1] /\ c[1] <= GRID_W /\ 0 <= c[2] /\ c[2] <= GRID_H

InGrid(c) == 0 <= c[1] /\ c[1] < GRID_W /\ 0 <= c[2] /\ c[2] < GRID_H

\* The slider value is k / SLIDER_W for a pixel offset k; the model keeps k.
\* lerp(6, MAX_FPS, value) truncated by int().
lerp_int(k) == 6 + ((MAX_FPS - 6) * k) \div SLIDER_W

\* restart(): int(max(6, min(MAX_FPS, int(lerp(6, MAX_FPS, slider.value)))))
\* main():    clamp(int(lerp(6, MAX_FPS, slider.value)), 6, MAX_FPS)
Preview(k) == clamp(lerp_int(k), 6, MAX_FPS)

\* Sequential composition: run F on every outcome of S that has not exited.
Then(S, F(_)) == UNION { IF g.exited THEN {g} ELSE F(g) : g \in S }

RemoveAt(s, i) == SubSeq(s, 1, i - 1) \o SubSeq(s, i + 1, Len(s))

---------------------------------------------------------------------------
(* Game.spawn_apple and Game.reset *)

\* One call of spawn_apple with the given value of `bypass`.  Each of the up
\* to 200 draws is a grid cell; the first accepted draw is appended.  With
\* bypass the first draw is accepted; without it every draw of an occupied
\* cell is rejected, and 200 rejected draws leave the pool as it is.
\* Mutant of spawn_with: the draw is compared with the apples only
spawn_with_onsnake(g, bypass) ==
    { [g EXCEPT !.apples = Append(@, c)] :
        c \in { d \in RandCells : bypass \/ d \notin Cells(g.apples) } }
    \cup (IF ~bypass /\ (Cells(g.snake) \cup Cells(g.apples)) # {}
          THEN {g} ELSE {})

spawn_with(g, bypass) ==
    { [g EXCEPT !.apples = Append(@, c)] :
        c \in { d \in RandCells :
                  bypass \/ (d \notin Cells(g.snake) /\ d \notin Cells(g.apples)) } }
    \cup (IF ~bypass /\ (Cells(g.snake) \cup Cells(g.apples)) # {}
          THEN {g} ELSE {})

spawn_apple(g) == UNION { spawn_with(g, bypass) : bypass \in BOOLEAN }

StartSnake ==
    LET cx == GRID_W \div 2
        cy == GRID_H \div 2
    IN  << <<cx - 2, cy>>, <<cx - 1, cy>>, <<cx, cy>> >>

reset(g, full) ==
    LET g1 == [g EXCEPT !.snake = StartSnake,
                        !.direction = <<1, 0>>,
                        !.next_dir = <<1, 0>>,
                        !.ticks = 0,
                        !.score = 0,
                        !.best = IF full THEN 0 ELSE @,
                        !.speed = FPS_BASE,
                        !.apples = << >>]
        wall(h) == { [h EXCEPT !.invis_x = GRID_W \div 3,
                               !.invis_y1 = 4,
                               !.invis_y2 = GRID_H - 5,
                               !.game_over = FALSE] }
    IN  Then(Then(spawn_apple(g1), spawn_apple), wall)

---------------------------------------------------------------------------
(* Scene controls *)

start_game(g) == { [g EXCEPT !.scene = "play"] }

show_help(g) == { [g EXCEPT !.scene = "help"] }

goto_menu(g) == { [g EXCEPT !.scene = "menu"] }

resume(g) == { [g EXCEPT !.scene = "play"] }

\* Mutant of restart: the round is reset with full=True
restart_full(g) ==
    { [h EXCEPT !.speed = Preview(h.slider_value), !.scene = "play",
                !.restarted = TRUE] :
        h \in reset(g, TRUE) }

\* (the field "restarted" records the call, for the history variable)
restart(g) ==
    { [h EXCEPT !.speed = Preview(h.slider_value), !.scene = "play",
                !.restarted = TRUE] :
        h \in reset(g, FALSE) }

quit(g) == { [g EXCEPT !.exited = TRUE] }

---------------------------------------------------------------------------
(* Events and UI primitives *)

\* The keys the model presses (a, d, w, s act as the arrow keys do)
Keys == {"ESCAPE", "p", "r", "RETURN", "LEFT", "RIGHT", "UP", "DOWN"}

KeysUp == {"ESCAPE", "p", "r", "RETURN"}

Ev(type, key, at, px) == [type |-> type, key |-> key, at |-> at, px |-> px]

\* Mouse events carry the rect the position lies in ("rect1".."rect3" are the
\* three button rects of the side panel, "slider" the slider rect, "none"
\* anywhere else) and, inside the slider, the pixel offset from its left edge.
\* Mouse button events are of button 1; motion events have button 1 held.
Events ==
    { Ev("QUIT", "-", "none", 0) }
    \cup { Ev("KEYDOWN", k, "none", 0) : k \in Keys }
    \cup { Ev("KEYUP", k, "none", 0) : k \in KeysUp }
    \cup { Ev("MOUSEBUTTONUP", "-", a, 0) : a \in {"rect1", "rect2", "rect3", "none"} }
    \cup { Ev("MOUSEBUTTONDOWN", "-", "slider", k) : k \in SliderPx }
    \cup { Ev("MOUSEMOTION", "-", "slider", k) : k \in SliderPx }

Buttons == {"btn_start", "btn_help", "btn_quit", "btn_resume", "btn_restart", "btn_menu"}

\* _build_ui: the rect of each button (by, by+56, by+112)
ButtonRect(b) ==
    CASE b \in {"btn_start", "btn_resume"} -> "rect1"
      [] b \in {"btn_help", "btn_restart"} -> "rect2"
      [] b \in {"btn_quit", "btn_menu"}    -> "rect3"

Hotkey(b) ==
    CASE b = "btn_start"   -> "RETURN"
      [] b = "btn_resume"  -> "p"
      [] b = "btn_restart" -> "r"
      [] OTHER             -> "none"

Callback(b, g) ==
    CASE b = "btn_start"   -> start_game(g)
      [] b = "btn_help"    -> show_help(g)
      [] b = "btn_quit"    -> quit(g)
      [] b = "btn_resume"  -> resume(g)
      [] b = "btn_restart" -> restart(g)
      [] b = "btn_menu"    -> goto_menu(g)

Button_handle(b, e, g) ==
    LET afterClick ==
            IF e.type = "MOUSEBUTTONUP" /\ e.at = ButtonRect(b)
            THEN Callback(b, g) ELSE {g}
        hot(h) ==
            IF Hotkey(b) # "none" /\ e.type = "KEYUP" /\ e.key = Hotkey(b)
            THEN Callback(b, h) ELSE {h}
    IN  Then(afterClick, hot)

\* Mutant of Slider_handle: the dragged value is applied to the speed at once
Slider_handle_live(e, g) ==
    IF e.type \in {"MOUSEBUTTONDOWN", "MOUSEMOTION"} /\ e.at = "slider"
    THEN { [g EXCEPT !.slider_value = clamp(e.px, 0, SLIDER_W),
                     !.speed = Preview(clamp(e.px, 0, SLIDER_W))] }
    ELSE {g}

Slider_handle(e, g) ==
    IF e.type = "MOUSEBUTTONDOWN" /\ e.at = "slider"
    THEN { [g EXCEPT !.slider_value = clamp(e.px, 0, SLIDER_W)] }
    ELSE IF e.type = "MOUSEMOTION" /\ e.at = "slider"
    THEN { [g EXCEPT !.slider_value = clamp(e.px, 0, SLIDER_W)] }
    ELSE {g}

---------------------------------------------------------------------------
(* Game.handle_events: the body of its loop, for one event *)

KeyDir(k) ==
    CASE k \in {"LEFT", "a"}  -> <<-1, 0>>
      [] k \in {"RIGHT", "d"} -> <<1, 0>>
      [] k \in {"UP", "w"}    -> <<0, -1>>
      [] k \in {"DOWN", "s"}  -> <<0, 1>>

IsDirKey(k) == k \in {"LEFT", "a", "RIGHT", "d", "UP", "w", "DOWN", "s"}

\* if e.type == pygame.KEYDOWN: ...
keydown(e, g) ==
    IF e.type # "KEYDOWN" THEN {g}
    ELSE
    LET g1 == IF e.key = "ESCAPE" THEN [g EXCEPT !.scene = "menu"] ELSE g
        g2 == IF e.key = "p"
              THEN IF g1.scene = "play" THEN [g1 EXCEPT !.scene = "paused"]
                   ELSE IF g1.scene = "paused" THEN [g1 EXCEPT !.scene = "play"]
                   ELSE g1
              ELSE g1
        S3 == IF g2.scene \in {"play", "paused", "gameover"} /\ e.key \in {"r", "RETURN"}
              THEN restart(g2) ELSE {g2}
    IN  { IF g3.scene = "play" /\ IsDirKey(e.key)
          THEN [g3 EXCEPT !.next_dir = KeyDir(e.key)] ELSE g3 : g3 \in S3 }

\* # UI: the widgets of the scene the game is in after the key handling
ui(e, g) ==
    LET bs(h) == Button_handle("btn_start", e, h)
        bh(h) == Button_handle("btn_help", e, h)
        bq(h) == Button_handle("btn_quit", e, h)
        br(h) == Button_handle("btn_resume", e, h)
        bt(h) == Button_handle("btn_restart", e, h)
        bm(h) == Button_handle("btn_menu", e, h)
        sl(h) == Slider_handle(e, h)
    IN  CASE g.scene = "menu"     -> Then(Then(bs(g), bh), bq)
          [] g.scene = "paused"   -> Then(Then(Then(br(g), bt), bm), sl)
          [] g.scene = "gameover" -> Then(Then(bt(g), bm), bq)
          [] OTHER                -> {g}

handle_event(e, g) ==
    LET kd(h) == keydown(e, h)
        u(h)  == ui(e, h)
    IN  Then(Then(IF e.type = "QUIT" THEN quit(g) ELSE {g}, kd), u)

\* main(): the body of the event loop it runs itself while the scene is 'menu'
main_event(e, g) ==
    LET bs(h) == Button_handle("btn_start", e, h)
        bh(h) == Button_handle("btn_help", e, h)
        bq(h) == Button_handle("btn_quit", e, h)
    IN  Then(Then(Then(IF e.type = "QUIT" THEN quit(g) ELSE {g}, bs), bh), bq)

---------------------------------------------------------------------------
(* Game.step *)

Opposite(d) == <<-d[1], -d[2]>>

\* Mutant of ResolveDir: the reversal is rejected on every tick
ResolveDir_strict(nd, d, t) == IF nd # Opposite(d) THEN nd ELSE d

\* Direction resolution of step(), for the tick counter t after its increment
ResolveDir(nd, d, t) == IF nd # Opposite(d) \/ t % 12 = 0 THEN nd ELSE d

snake_head(g) == g.snake[Len(g.snake)]

\* Mutant of Candidate: the board wraps around at its edges
Candidate_wrap(h, d) == <<(h[1] + d[1]) % GRID_W, (h[2] + d[2]) % GRID_H>>

Candidate(h, d) == <<h[1] + d[1], h[2] + d[2]>>

\* Mutant of InBarrier: the invisible-wall check is gone
InBarrier_none(g, c) == FALSE

InBarrier(g, c) == c[1] = g.invis_x /\ g.invis_y1 <= c[2] /\ c[2] <= g.invis_y2

\* Index of the first apple at cell c, 0 when there is none
AppleAt(ap, c) ==
    IF \E i \in 1..Len(ap) : ap[i] = c
    THEN CHOOSE i \in 1..Len(ap) : ap[i] = c /\ \A j \in 1..(i - 1) : ap[j] # c
    ELSE 0

\* Mutant of Phantom: the sign of the direction is wrong
Phantom_right(d, c) == d = <<1, 0>> /\ c[2] % 2 = 0

Phantom(d, c) == d = <<-1, 0>> /\ c[2] % 2 = 0

\* Mutant of end_round: Best is not updated
end_round_keepbest(g) == [g EXCEPT !.game_over = TRUE, !.scene = "gameover"]

end_round(g) ==
    [g EXCEPT !.game_over = TRUE, !.scene = "gameover", !.best = Max(@, g.score)]

\* Mutant of self_collision: the check is gone
self_collision_none(g) == g

\* self-collision check at the end of step()
self_collision(g) ==
    IF snake_head(g) \in Cells(SubSeq(g.snake, 1, Len(g.snake) - 1))
    THEN end_round(g) ELSE g

\* Mutant of consume: the eaten apple is not deleted
consume_keep(m, i) == [m EXCEPT !.score = @ + 1]

\* normal consumption: score += 1; del self.apples[i]
consume(m, i) == [m EXCEPT !.score = @ + 1, !.apples = RemoveAt(@, i)]

\* Mutant of eat: a phantom consumption skips the tail trim
eat_phantomgrow(m, n) ==
    LET i == AppleAt(m.apples, n)
        trim(h) == { self_collision([h EXCEPT !.snake = Tail(@)]) }
        keep(h) == { self_collision(h) }
    IN  IF i = 0 THEN trim(m)
        ELSE IF Phantom(m.direction, n) THEN Then(spawn_apple(m), keep)
        ELSE Then(spawn_apple(consume(m, i)), keep)

\* Mutant of eat: the self-collision check runs before the tail trim
eat_checkfirst(m, n) ==
    LET i == AppleAt(m.apples, n)
        trim(h) == { [self_collision(h) EXCEPT !.snake = Tail(@)] }
        keep(h) == { self_collision(h) }
    IN  IF i = 0 THEN trim(m)
        ELSE IF Phantom(m.direction, n) THEN Then(spawn_apple(m), trim)
        ELSE Then(spawn_apple(consume(m, i)), keep)

\* apple check of step(), the tail trim and the self-collision check, for the
\* game m whose snake already holds the new head n
eat(m, n) ==
    LET i == AppleAt(m.apples, n)
        trim(h) == { self_collision([h EXCEPT !.snake = Tail(@)]) }
        keep(h) == { self_collision(h) }
    IN  IF i = 0 THEN trim(m)
        ELSE IF Phantom(m.direction, n) THEN Then(spawn_apple(m), trim)
        ELSE Then(spawn_apple(consume(m, i)), keep)

\* Mutant of step: the new head is appended before the barrier check, so a
\* blocked step leaves the barrier cell in the snake
step_appendfirst(g) ==
    LET t  == g.ticks + 1
        d  == ResolveDir(g.next_dir, g.direction, t)
        n  == Candidate(snake_head(g), d)
        g1 == [g EXCEPT !.ticks = t, !.direction = d]
        g2 == [g1 EXCEPT !.snake = Append(@, n)]
    IN  IF ~InGrid(n) THEN { end_round(g1) }
        ELSE IF InBarrier(g1, n) THEN { g2 }
        ELSE eat(g2, n)

step(g) ==
    LET t  == g.ticks + 1
        d  == ResolveDir(g.next_dir, g.direction, t)
        n  == Candidate(snake_head(g), d)
        g1 == [g EXCEPT !.ticks = t, !.direction = d]
    IN  IF ~InGrid(n) THEN { end_round(g1) }
        ELSE IF InBarrier(g1, n) THEN { g1 }
        ELSE eat([g1 EXCEPT !.snake = Append(@, n)], n)

---------------------------------------------------------------------------
(* The state machine *)

G == [scene |-> scene, snake |-> snake, direction |-> direction,
      next_dir |-> next_dir, ticks |-> ticks, score |-> score, best |-> best,
      speed |-> speed, apples |-> apples, invis_x |-> invis_x,
      invis_y1 |-> invis_y1, invis_y2 |-> invis_y2, game_over |-> game_over,
      slider_value |-> slider_value, exited |-> FALSE, restarted |-> restarted]

Load(g) ==
    /\ scene' = g.scene
    /\ snake' = g.snake
    /\ direction' = g.direction
    /\ next_dir' = g.next_dir
    /\ ticks' = g.ticks
    /\ score' = g.score
    /\ best' = g.best
    /\ speed' = g.speed
    /\ apples' = g.apples
    /\ invis_x' = g.invis_x
    /\ invis_y1' = g.invis_y1
    /\ invis_y2' = g.invis_y2
    /\ game_over' = g.game_over
    /\ slider_value' = g.slider_value
    /\ scenario' = scenario

gamevars == <<scene, snake, direction, next_dir, ticks, score, best, speed,
              apples, invis_x, invis_y1, invis_y2, game_over, slider_value>>

\* Game.__init__ then the start of main(): reset(full=True), scene 'menu',
\* the slider at (FPS_BASE-6)/(MAX_FPS-6), speed read once from the slider.
Blank == [scene |-> "menu", snake |-> << >>, direction |-> <<1, 0>>,
          next_dir |-> <<1, 0>>, ticks |-> 0, score |-> 0, best |-> 0,
          speed |-> 0, apples |-> << >>, invis_x |-> 0, invis_y1 |-> 0,
          invis_y2 |-> 0, game_over |-> FALSE,
          slider_value |-> ((FPS_BASE - 6) * SLIDER_W) \div (MAX_FPS - 6),
          exited |-> FALSE, restarted |-> FALSE]

Constructed ==
    { [g EXCEPT !.scene = "menu", !.speed = Preview(g.slider_value)] :
        g \in reset(Blank, TRUE) }

Init ==
    /\ pc = "main"
    /\ scenario \in Scenarios
    /\ restarted = FALSE
    /\ \E g \in Constructed :
        /\ scene = g.scene
        /\ snake = g.snake
        /\ direction = g.direction
        /\ next_dir = g.next_dir
        /\ ticks = g.ticks
        /\ score = g.score
        /\ best = g.best
        /\ speed = g.speed
        /\ apples = g.apples
        /\ invis_x = g.invis_x
        /\ invis_y1 = g.invis_y1
        /\ invis_y2 = g.invis_y2
        /\ game_over = g.game_over
        /\ slider_value = g.slider_value

\* main(): one event of the loop `for e in pygame.event.get()` of main()
MainDispatch(e) ==
    /\ pc = "main"
    /\ \E g \in main_event(e, G) :
        /\ Load(g)
        /\ restarted' = g.restarted
        /\ pc' = IF g.exited THEN "exit" ELSE "main"

\* main(): the events of this pass are drained; `if game.scene == 'menu'`
\* runs the menu loop again, else game.run() starts and never returns
MainFrame ==
    /\ pc = "main"
    /\ pc' = IF scene = "menu" THEN "main" ELSE "events"
    /\ UNCHANGED <<gamevars, scenario, restarted>>

InputAllowed(e) ==
    scene = "play" =>
        IF e.type = "KEYDOWN" /\ IsDirKey(e.key) THEN ticks < MaxInputTick
        ELSE IF e.type = "KEYDOWN" /\ e.key \in {"r", "RETURN"} THEN TRUE
        ELSE ticks < MaxUITick

\* Game.handle_events: one event of its loop
RunDispatch(e) ==
    /\ pc = "events"
    /\ InputAllowed(e)
    /\ \E g \in handle_event(e, G) :
        /\ Load(g)
        /\ restarted' = g.restarted
        /\ pc' = IF g.exited THEN "exit" ELSE "events"

\* Mutant of RunFrame: step() is called whatever the scene is
RunFrame_anyscene ==
    /\ pc = "events"
    /\ ticks < MaxTicks
    /\ \E g \in step(G) : Load(g)
    /\ restarted' = FALSE
    /\ pc' = "events"

\* Game.run: handle_events() returns (the pending events are drained), then
\* `if self.scene == 'play': self.step()`, and the frame ends
RunFrame ==
    /\ pc = "events"
    /\ scene = "play" => ticks < MaxTicks
    /\ \E g \in (IF scene = "play" THEN step(G) ELSE {G}) : Load(g)
    /\ restarted' = FALSE
    /\ pc' = "events"

Next ==
    \/ \E e \in Events : MainDispatch(e)
    \/ MainFrame
    \/ \E e \in Events : RunDispatch(e)
    \/ RunFrame

Spec == Init /\ [][Next]_vars

---------------------------------------------------------------------------
(* Properties of step() *)

\* A transition is a call of step() exactly when the tick counter grows by 1
\* (restart sets it to 0, nothing else changes it).
StepTaken == ticks' = ticks + 1

HeadCell == snake[Len(snake)]

\* The candidate head cell of the step: the old head plus the direction the
\* step resolved (step() stores it in self.direction before anything else).
CandidateCell == <<HeadCell[1] + direction'[1], HeadCell[2] + direction'[2]>>

\* The step appended a head (it was neither a border hit nor a barrier block)
Moved == StepTaken /\ snake' # snake

OntoApple == snake'[Len(snake')] \in Cells(apples)

PhantomCond == direction' = <<-1, 0>> /\ snake'[Len(snake')][2] % 2 = 0

\* C1: in step(), with t the tick counter after its increment, a pending
\* direction that is the exact opposite of the current one is rejected when
\* t % 12 # 0 (the direction is kept) and adopted when t % 12 = 0; so with a
\* reversal pending throughout, the direction flips on tick 12 only.
C1_ReversalEvery12th ==
    [][StepTaken =>
          /\ (next_dir = Opposite(direction) /\ ticks' % 12 # 0) => direction' = direction
          /\ (ticks' % 12 = 0) => direction' = next_dir
          /\ (next_dir # Opposite(direction)) => direction' = next_dir]_vars

\* C1 witness: twelve ticks of a round in which the snake went 11 cells to
\* the right and flipped on tick 12 (head back on x = 23 in row 10).
C1_Witness ==
    /\ ticks = 12
    /\ direction = <<-1, 0>>
    /\ snake = << <<23, 10>>, <<24, 10>>, <<23, 10>> >>

\* C2 (as stated): a normal consumption raises the score by 1, grows the
\* snake by 1, removes the consumed apple and adds one replacement apple, so
\* the pool size is the same as before the step.
C2_AsStated ==
    [][(Moved /\ OntoApple /\ ~PhantomCond) =>
          /\ score' = score + 1
          /\ Len(snake') = Len(snake) + 1
          /\ SubSeq(apples', 1, Len(apples) - 1)
                = RemoveAt(apples, AppleAt(apples, snake'[Len(snake')]))
          /\ Len(apples') = Len(apples)]_vars

\* C2 (amended): a normal consumption raises the score by 1, grows the snake
\* by 1 and removes the consumed apple entry; spawn_apple then adds at most
\* one apple at the end of the pool, so the pool size is the same as before
\* the step, or one less when spawn_apple drew no free cell in its attempts.
C2_NormalConsumption ==
    [][(Moved /\ OntoApple /\ ~PhantomCond) =>
          /\ score' = score + 1
          /\ Len(snake') = Len(snake) + 1
          /\ SubSeq(apples', 1, Len(apples) - 1)
                = RemoveAt(apples, AppleAt(apples, snake'[Len(snake')]))
          /\ Len(apples') \in {Len(apples) - 1, Len(apples)}]_vars

\* C2 witness: the apple at (12,8) was eaten moving up on tick 3
C2_Witness ==
    /\ ticks = 3
    /\ score = 1
    /\ direction = <<0, -1>>
    /\ snake = << <<13, 10>>, <<13, 9>>, <<12, 9>>, <<12, 8>> >>

\* C3 (as stated): a phantom consumption leaves score and length unchanged,
\* keeps the original apple in the pool and grows the pool by exactly 1.
C3_AsStated ==
    [][(Moved /\ OntoApple /\ PhantomCond) =>
          /\ score' = score
          /\ Len(snake') = Len(snake)
          /\ SubSeq(apples', 1, Len(apples)) = apples
          /\ Len(apples') = Len(apples) + 1]_vars

\* C3 (amended): a phantom consumption leaves score and length unchanged and
\* keeps every apple of the pool in place; spawn_apple adds at most one apple
\* at the end, so the pool grows by 1, or stays as it is when spawn_apple
\* drew no free cell in its attempts.
C3_PhantomConsumption ==
    [][(Moved /\ OntoApple /\ PhantomCond) =>
          /\ score' = score
          /\ Len(snake') = Len(snake)
          /\ SubSeq(apples', 1, Len(apples)) = apples
          /\ Len(apples') \in {Len(apples), Len(apples) + 1}]_vars

\* C3 witness: the head moved left onto the apple at (12,8) on tick 3; the
\* score is 0, the length 3, the apple is still there and the pool holds 3.
C3_Witness ==
    /\ ticks = 3
    /\ score = 0
    /\ direction = <<-1, 0>>
    /\ snake = << <<13, 9>>, <<13, 8>>, <<12, 8>> >>
    /\ Len(apples) = 3
    /\ <<12, 8>> \in Cells(apples)

\* C4: a step whose candidate head cell is in the barrier (column invis_x,
\* rows invis_y1..invis_y2) leaves the snake, the score, the pool, Best and
\* the scene (play) unchanged; the tick counter is advanced.
C4_BarrierNoop ==
    [][(StepTaken /\ CandidateCell[1] = invis_x
                  /\ invis_y1 <= CandidateCell[2] /\ CandidateCell[2] <= invis_y2) =>
          /\ snake' = snake
          /\ score' = score
          /\ apples' = apples
          /\ best' = best
          /\ scene' = "play"
          /\ ticks' = ticks + 1]_vars

\* C4 witness: the head reached (9,9) on tick 5 and was blocked on tick 6
C4_Witness ==
    /\ ticks = 6
    /\ scene = "play"
    /\ direction = <<-1, 0>>
    /\ HeadCell = <<9, 9>>

\* C5: a step whose candidate head cell is outside the grid sets the scene to
\* gameover and Best to max(Best, Score) and changes nothing else of the
\* round: snake, pool and score are as before.
C5_BorderCollision ==
    [][(StepTaken /\ ~(/\ 0 <= CandidateCell[1] /\ CandidateCell[1] < GRID_W
                       /\ 0 <= CandidateCell[2] /\ CandidateCell[2] < GRID_H)) =>
          /\ scene' = "gameover"
          /\ best' = IF score > best THEN score ELSE best
          /\ snake' = snake
          /\ apples' = apples
          /\ score' = score]_vars

\* C5 witness: a round that ended on the top border with a score of 1 that
\* became Best
C5_Witness ==
    /\ scene = "gameover"
    /\ HeadCell[2] = 0
    /\ direction = <<0, -1>>
    /\ score = 1
    /\ best = 1

\* C10: every snake cell lies in the grid, in every reachable state
C10_SnakeInGrid ==
    \A i \in 1..Len(snake) :
        /\ 0 <= snake[i][1] /\ snake[i][1] < GRID_W
        /\ 0 <= snake[i][2] /\ snake[i][2] < GRID_H

\* C10 witness: the round ended on the right border: the head is still on
\* the last column and the cell outside was not added
C10_Witness ==
    /\ scene = "gameover"
    /\ direction = <<1, 0>>
    /\ HeadCell = <<GRID_W - 1, 10>>
    /\ Len(snake) = 3

---------------------------------------------------------------------------
(* Properties of the snake *)

Abs(x) == IF x < 0 THEN -x ELSE x

Manhattan(a, b) == Abs(a[1] - b[1]) + Abs(a[2] - b[2])

\* C11: every two consecutive cells of the snake are grid-adjacent (Manhattan
\* distance exactly 1), in every reachable state: also after an accepted
\* reversal, a barrier block, a phantom consumption and a round-ending step.
C11_ConsecutiveAdjacent ==
    \A i \in 1..(Len(snake) - 1) : Manhattan(snake[i], snake[i + 1]) = 1

\* C11 witness: a round that the accepted reversal of tick 12 ended: the head
\* went back onto the cell behind it
C11_Witness ==
    /\ scene = "gameover"
    /\ ticks = 12
    /\ Len(snake) = 3
    /\ snake[3] = snake[1]
    /\ snake[2] = <<snake[3][1] + 1, snake[3][2]>>

Distinct(s) == \A i, j \in 1..Len(s) : i # j => s[i] # s[j]

\* C12 (as stated): the cells of the snake are pairwise distinct in every
\* reachable state.
C12_AsStated == Distinct(snake)

\* C12 (amended): the cells of the snake are pairwise distinct in every
\* reachable state in which no collision has ended the round since its reset
\* (game_over is unset).  The step that finds a self-collision keeps the new
\* head in the snake, on the cell of another snake cell.
C12_DistinctWhileAlive == ~game_over => Distinct(snake)

\* C12 witness: a running round in which the head has just moved onto the
\* cell the tail left in the same step (the 4-cell snake fills a 2x2 square)
C12_Witness ==
    /\ scene = "play"
    /\ ~game_over
    /\ ticks = 3
    /\ snake = << <<13, 10>>, <<13, 9>>, <<12, 9>>, <<12, 10>> >>

\* The step grew the snake (the tail was not trimmed)
Grew == Len(snake') = Len(snake) + 1

\* The new head went onto the cell the tail occupied before the step
OntoTail == snake'[Len(snake')] = snake[1]

---------------------------------------------------------------------------
(* Properties of spawn_apple *)

Occupied == Cells(snake) \cup Cells(apples)

\* C13: a call of spawn_apple, from any reachable state, changes nothing but
\* the pool and adds at most one apple, at its end; a call without bypass
\* adds only a cell that is neither a snake cell nor the cell of an apple of
\* the pool, and leaves the pool as it is when every draw is occupied; so
\* only a call with bypass adds an apple on the snake or on another apple.
C13_SpawnApple ==
    /\ \A bypass \in BOOLEAN : \A h \in spawn_with(G, bypass) :
          /\ [h EXCEPT !.apples = apples] = G
          /\ \/ h.apples = apples
             \/ /\ Len(h.apples) = Len(apples) + 1
                /\ SubSeq(h.apples, 1, Len(apples)) = apples
                /\ InGrid(h.apples[Len(h.apples)])
                /\ ~bypass => h.apples[Len(h.apples)] \notin Occupied
    /\ RandCells \subseteq Occupied => spawn_with(G, FALSE) = {G}
    /\ \A h \in spawn_with(G, TRUE) : Len(h.apples) = Len(apples) + 1

\* C13 witness: the pool of a new round holds two apples on one cell (the
\* second call of reset had bypass), and a call without bypass now finds no
\* free cell and adds nothing
C13_Witness ==
    /\ ticks = 0
    /\ Len(apples) = 2
    /\ apples[1] = apples[2]
    /\ RandCells \subseteq Occupied
    /\ spawn_with(G, FALSE) = {G}

---------------------------------------------------------------------------
(* Properties of the scene controls *)

\* The game values the dispatch of event e can leave behind, from the
\* current state: by main()'s menu loop or by Game.handle_events.
Dispatched(e) ==
    IF pc = "main" THEN main_event(e, G)
    ELSE IF pc = "events" THEN handle_event(e, G)
    ELSE {}

KeyDown(k) == Ev("KEYDOWN", k, "none", 0)

KeyUp(k) == Ev("KEYUP", k, "none", 0)

Click(r) == Ev("MOUSEBUTTONUP", "-", r, 0)

\* The commands, as the events that issue them in scene s: a key press, or
\* the activation (click or hotkey) of the button the scene shows.
StartCmds == {Click("rect1"), KeyUp("RETURN")}

HelpCmds == {Click("rect2")}

EscapeCmds(s) ==
    {KeyDown("ESCAPE")} \cup (IF s \in {"paused", "gameover"} THEN {Click("rect3")} ELSE {})

PauseCmds(s) ==
    {KeyDown("p")} \cup (IF s = "paused" THEN {Click("rect1"), KeyUp("p")} ELSE {})

RestartCmds(s) ==
    {KeyDown("r"), KeyDown("RETURN")}
    \cup (IF s \in {"paused", "gameover"} THEN {Click("rect2"), KeyUp("r")} ELSE {})

TableRow(e, s, t) ==
    /\ (s = "menu" /\ e \in StartCmds) => t = "play"
    /\ (s = "menu" /\ e \in HelpCmds) => t = "help"
    /\ (e \in EscapeCmds(s)) => t = "menu"
    /\ (s = "play" /\ e \in PauseCmds(s)) => t = "paused"
    /\ (s = "paused" /\ e \in PauseCmds(s)) => t = "play"
    /\ (s \in {"play", "paused", "gameover"} /\ e \in RestartCmds(s)) => t = "play"

\* C6 (as stated): every (scene, command) pair of the transition table
\* yields the listed scene, whenever the program dispatches the command.
C6_TransitionTable ==
    \A e \in Events : \A g \in Dispatched(e) : TableRow(e, scene, g.scene)

\* C6, for the events Game.handle_events dispatches only: there the table holds.
C6_TableInHandleEvents ==
    pc = "events" => \A e \in Events : \A g \in handle_event(e, G) :
                        TableRow(e, scene, g.scene)

\* The (scene, command) pairs the table does not list
Unlisted(e, s) ==
    \/ e \in {KeyDown("p"), KeyUp("p")} /\ s \in {"menu", "help", "gameover"}
    \/ e \in {KeyDown("r"), KeyDown("RETURN"), KeyUp("r")} /\ s \in {"menu", "help"}
    \/ e = KeyUp("RETURN") /\ s \in {"play", "paused", "help", "gameover"}
    \/ e = Click("rect1") /\ s \in {"play", "help", "gameover"}
    \/ e = Click("rect2") /\ s \in {"play", "help"}
    \/ e.type = "KEYDOWN" /\ IsDirKey(e.key)
    \/ e.type \in {"MOUSEBUTTONDOWN", "MOUSEMOTION"} /\ e.at = "slider"

\* C7 (as stated): a command the table does not list for the scene leaves
\* the scene unchanged, whenever the program dispatches it.
C7_UnlistedNoop ==
    \A e \in Events : Unlisted(e, scene) => \A g \in Dispatched(e) : g.scene = scene

\* C7, for the events Game.handle_events dispatches only: there it holds.
C7_UnlistedInHandleEvents ==
    pc = "events" => \A e \in Events : Unlisted(e, scene) =>
                        \A g \in handle_event(e, G) : g.scene = scene

FreshRound(g) ==
    /\ g.scene = "play"
    /\ g.snake = << <<11, 10>>, <<12, 10>>, <<13, 10>> >>
    /\ g.direction = <<1, 0>>
    /\ g.next_dir = <<1, 0>>
    /\ g.score = 0
    /\ g.ticks = 0
    /\ g.invis_x = 8 /\ g.invis_y1 = 4 /\ g.invis_y2 = 15

RestartExecutes == pc = "events" /\ scene \in {"play", "paused", "gameover"}

\* C8 (as stated): restart executed in play, paused or gameover leaves a
\* fresh round (scene play, the 3-cell snake moving +x, score 0, ticks 0,
\* the barrier in place), exactly two apples, and Best as it was.
C8_AsStated ==
    RestartExecutes =>
        \A e \in RestartCmds(scene) : \A g \in handle_event(e, G) :
            FreshRound(g) /\ g.best = best /\ Len(g.apples) = 2

\* C8 (amended): as stated, but the pool holds at most two apples: each of
\* the two spawn_apple calls of reset adds one apple, or none when it drew no
\* free cell in its attempts.
C8_RestartFreshRound ==
    RestartExecutes =>
        \A e \in RestartCmds(scene) : \A g \in handle_event(e, G) :
            FreshRound(g) /\ g.best = best /\ Len(g.apples) <= 2

\* C8 witness: restart is dispatched in a round whose score is above Best
C8_Witness == RestartExecutes /\ score > best /\ ticks > 0

\* The tick rate the slider value stands for: lerp(6, 22, k/192), truncated
RateOf(k) == 6 + (16 * k) \div 192

\* C9: the applied tick rate (speed) changes only when restart executes,
\* which sets it from the slider; a slider drag while paused sets the slider
\* value and leaves speed alone, and so does every later event and step.
C9_TimingLatency ==
    /\ [](RestartExecutes =>
            \A e \in RestartCmds(scene) : \A g \in handle_event(e, G) :
                g.speed = RateOf(slider_value) /\ g.slider_value = slider_value)
    /\ []((pc = "events" /\ scene = "paused") =>
            \A e \in Events : (e.type \in {"MOUSEBUTTONDOWN", "MOUSEMOTION"} /\ e.at = "slider") =>
                \A g \in handle_event(e, G) : g.slider_value = e.px /\ g.speed = speed)
    /\ [][/\ (slider_value' # slider_value) => speed' = speed
          /\ (speed' # speed) => (ticks' = 0 /\ scene' = "play" /\ score' = 0
                                  /\ speed' = RateOf(slider_value))]_vars

\* C9 witness: the slider was dragged to the right end while paused, the
\* game went on and stepped, and the speed is still the one of process start
C9_Witness ==
    /\ slider_value = 191
    /\ speed = 10
    /\ scene = "play"
    /\ ticks > 0

---------------------------------------------------------------------------
(* Properties of the slider *)

\* slider-drag commands: button 1 pressed, or moved while held, on the slider
SliderEvents ==
    { e \in Events : e.type \in {"MOUSEBUTTONDOWN", "MOUSEMOTION"} /\ e.at = "slider" }

\* C15 (as stated): a slider drag sets the slider value to the dragged value
\* in every scene, whenever the program dispatches it.
C15_AsStated ==
    \A e \in SliderEvents : \A g \in Dispatched(e) : g.slider_value = e.px

\* C15, as the code has it: a slider drag sets the slider value to the
\* dragged value while the scene is paused, and changes nothing else; in
\* every other scene (menu, play, help, gameover) it changes nothing at all.
C15_SliderWhilePaused ==
    \A e \in SliderEvents : \A g \in Dispatched(e) :
        /\ g.slider_value = IF scene = "paused" THEN e.px ELSE slider_value
        /\ [g EXCEPT !.slider_value = slider_value] = G

---------------------------------------------------------------------------
(* Properties of the loop of Game.run *)

\* The frame of a loop iteration in which restart() was called ends
RestartFrameEnds == restarted /\ ~restarted'

\* The transition is a dispatch that called restart()
RestartDispatched ==
    /\ restarted'
    /\ scene' = "play" /\ ticks' = 0 /\ score' = 0 /\ snake' = StartSnake

\* step() runs only as the last thing of an iteration of Game.run whose
\* dispatch left the scene play, once; every transition that is neither a
\* step nor a restart leaves snake, pool, score and tick counter alone.
StepOrder ==
    /\ (ticks' > ticks) =>
          /\ pc = "events" /\ scene = "play"
          /\ ticks' = ticks + 1
          /\ ~restarted'
    /\ (~(ticks' > ticks) /\ ~RestartDispatched) =>
          UNCHANGED <<snake, apples, score, ticks>>

---------------------------------------------------------------------------
(* Properties of rounds, pauses and pending directions *)

\* C17 (as stated): once a step has ended the round (game_over is set, until
\* reset clears it), no step runs and snake, pool, score and Best stay as
\* they are, whatever is dispatched, until a restart resets the round.
C17_EndedStaysEnded ==
    [][(game_over /\ ~RestartDispatched) =>
          (~StepTaken /\ UNCHANGED <<snake, apples, score, best>>)]_vars

\* The commands that may end a pause: a P press or a click on Resume, a
\* restart, an escape (key or Menu button) and quit
EndsPause ==
    {KeyDown("p"), Click("rect1")} \cup RestartCmds("paused")
    \cup {KeyDown("ESCAPE"), Click("rect3")} \cup {Ev("QUIT", "-", "none", 0)}

\* C18 (as stated): while the scene is paused, every event other than a
\* pause-toggle, a restart, an escape or quit leaves the scene paused; so
\* does the release of the P key.
C18_PausePersists ==
    (pc = "events" /\ scene = "paused") =>
        \A e \in (Events \ EndsPause) \cup {KeyUp("p")} :
            \A g \in handle_event(e, G) : g.scene = "paused"

\* C18, for every event but the release of P: there it holds.
C18_PersistsButKeyUp ==
    (pc = "events" /\ scene = "paused") =>
        \A e \in Events \ (EndsPause \cup {KeyUp("p")}) :
            \A g \in handle_event(e, G) : g.scene = "paused"

\* move commands: the presses of the direction keys
MoveCmds == { e \in Events : e.type = "KEYDOWN" /\ IsDirKey(e.key) }

\* What step() does with the pending direction: it keeps it pending, and a
\* pending reversal leaves the direction alone on a tick that is no multiple
\* of 12 and reverses it on a tick that is.  Between steps the pending
\* direction changes only to the direction of a move command, or by a reset.
PendingKept ==
    /\ StepTaken =>
          /\ next_dir' = next_dir
          /\ (next_dir = Opposite(direction) /\ ticks' % 12 # 0) => direction' = direction
          /\ (next_dir = Opposite(direction) /\ ticks' % 12 = 0) => direction' = Opposite(direction)
    /\ (next_dir' # next_dir) =>
          \/ RestartDispatched
          \/ scene = "play" /\ \E e \in MoveCmds : next_dir' = KeyDir(e.key)
    /\ (direction' # direction) => (StepTaken \/ RestartDispatched)

\* C19 (as stated): a move command dispatched while the scene is play becomes
\* the pending direction, replacing the one pending before; a pending
\* reversal stays pending over every step, the direction unchanged until the
\* first tick that is a multiple of 12, which reverses it, unless the round
\* is reset or a later move command replaces it.
C19_PendingReversal ==
    /\ [](scene = "play" =>
            \A e \in MoveCmds : \A g \in Dispatched(e) : g.next_dir = KeyDir(e.key))
    /\ [][PendingKept]_vars

\* C19, for the events Game.handle_events dispatches only: there it holds.
C19_PendingInHandleEvents ==
    /\ []((pc = "events" /\ scene = "play") =>
            \A e \in MoveCmds : \A g \in handle_event(e, G) : g.next_dir = KeyDir(e.key))
    /\ [][PendingKept]_vars

\* C20: the snake length is 3 + Score in every reachable state; length and
\* score change only together: by a step that adds one cell and one point,
\* or by the reset of a restart (3 cells, score 0).  So the snake never
\* shrinks within a round.
C20_LengthIsScorePlus3 ==
    /\ [](Len(snake) = 3 + score)
    /\ [][(Len(snake') # Len(snake) \/ score' # score) =>
            \/ StepTaken /\ Len(snake') = Len(snake) + 1 /\ score' = score + 1
            \/ RestartDispatched /\ Len(snake') = 3 /\ score' = 0]_vars

\* C20 witness: the first step of a round ate the apple above the head, and
\* the round goes on with 4 cells and a score of 1
C20_Witness ==
    /\ scene = "play"
    /\ ticks = 1
    /\ score = 1
    /\ Len(snake) = 4
    /\ HeadCell = <<13, 9>>

---------------------------------------------------------------------------
(* Properties of the invisible barrier *)

\* C21: in every reachable state no snake cell lies in the barrier region
\* (column invis_x, rows invis_y1..invis_y2 inclusive); a round that has
\* taken no step has the snake its reset built, which is outside the region
\* that reset set; spawn_apple does not exclude the region: a draw of a
\* barrier cell is appended to the pool whenever the call bypasses the
\* occupancy test or the cell is unoccupied.
C21_SnakeOutsideBarrier ==
    /\ \A i \in 1..Len(snake) : ~InBarrier(G, snake[i])
    /\ ticks = 0 =>
          /\ snake = StartSnake
          /\ \A i \in 1..Len(StartSnake) : ~InBarrier(G, StartSnake[i])
    /\ \A bypass \in BOOLEAN : \A c \in RandCells :
          (InBarrier(G, c) /\ (bypass \/ c \notin Occupied)) =>
              [G EXCEPT !.apples = Append(@, c)] \in spawn_with(G, bypass)

\* C21 witness: the head stands at (9,9) heading left, its step into (8,9)
\* was blocked, and an apple of the pool lies on that barrier cell
C21_Witness ==
    /\ scene = "play"
    /\ ticks = 7
    /\ direction = <<-1, 0>>
    /\ HeadCell = <<9, 9>>
    /\ \E i \in 1..Len(apples) : apples[i] = <<8, 9>> /\ InBarrier(G, apples[i])

=============================================================================
